---- MODULE Spec2Model ----
(***************************************************************************)
(* Model of app.py: the /remove-bg endpoint (remove_bg), its result cache  *)
(* (CACHE), its lazy model sessions (SESSIONS / get_session) and the image *)
(* helpers _refine_alpha, _premultiply_and_clean and _crop_with_margin.    *)
(*                                                                         *)
(* remove_bg is an asyncio coroutine: it runs atomically on the event loop *)
(* between its two awaits (file.read() at line 115, run_in_executor at     *)
(* line 161), and rembg's remove() runs on an EXECUTOR thread.  Each of    *)
(* those pieces is one action.                                             *)
(***************************************************************************)
EXTENDS Integers, Sequences, FiniteSets, TLC

VARIABLES
    pc,        \* per request: where the coroutine stands
    req,       \* per request: the upload bytes and the query parameters
    loc,       \* per request: the handler's local variables
    CACHE,     \* app.py CACHE: cache key -> encoded PNG
    SESSIONS,  \* app.py SESSIONS: the model names that have a loaded session
    stages,    \* per request: the pipeline stages completed so far, in order
    segCalls,  \* per request: how many times rembg.remove was invoked
    resp,      \* per request: the HTTP response
    order,     \* the requests in the order they arrived
    unit       \* the helper under test in the helper specifications

vars == <<pc, req, loc, CACHE, SESSIONS, stages, segCalls, resp, order, unit>>

Min(a, b) == IF a <= b THEN a ELSE b
Max(a, b) == IF a >= b THEN a ELSE b

-----------------------------------------------------------------------------
(* Program constants                                                       *)

DEFAULT_MODEL == "birefnet-general"

FastMaxSide == 640
BalancedMaxSide == 1280
QualityMaxSide == 2048
PreviewSide == 512
MemoryCap == 1200

PRESETS(preset) ==
    CASE preset = "fast"     -> [model |-> "u2netp",      max_side |-> FastMaxSide]
      [] preset = "balanced" -> [model |-> "u2net",       max_side |-> BalancedMaxSide]
      [] preset = "quality"  -> [model |-> DEFAULT_MODEL, max_side |-> QualityMaxSide]

\* The names rembg.new_session knows; it raises for any other name.
RembgModels == {"u2netp", "u2net", "birefnet-general"}

-----------------------------------------------------------------------------
(* Uploads.  An upload is a byte string; Image.open decodes it or raises.  *)
(* A PNG decoder stops at the IEND chunk, so bytes appended to a PNG       *)
(* decode to the same picture.                                             *)

Pictures ==
    << [bytes |-> "P",           size |-> <<300, 300>>],
       [bytes |-> "Pfast:auto:", size |-> <<300, 300>>],
       [bytes |-> "A",           size |-> <<1600, 1200>>],
       [bytes |-> "B",           size |-> <<513, 100>>],
       [bytes |-> "C",           size |-> <<641, 1201>>],
       [bytes |-> "D",           size |-> <<3000, 1>>],
       [bytes |-> "E",           size |-> <<2, 2500>>],
       [bytes |-> "F",           size |-> <<1200, 1200>>] >>

IsPicture(contents) == \E i \in 1..Len(Pictures) : Pictures[i].bytes = contents

PictureSize(contents) ==
    Pictures[CHOOSE i \in 1..Len(Pictures) : Pictures[i].bytes = contents].size

-----------------------------------------------------------------------------
(* The cache key, line 119.  The f-string formats None as "None", a bool   *)
(* as "True"/"False" and an int in decimal; model is None (<<>>) or a      *)
(* string (<<s>>).  SHA-256 is taken to be injective: a digest is          *)
(* determined by, and determines, the hashed bytes.                        *)

PyStrBool(b) == IF b THEN "True" ELSE "False"

PyStrOptional(m) == IF m = <<>> THEN "None" ELSE m[1]

PyStrInt(n) == ToString(n)

ParamString(q) ==
    q.preset \o ":" \o q.size \o ":" \o PyStrOptional(q.model) \o ":"
      \o PyStrBool(q.refine) \o ":" \o PyStrBool(q.apply_despill) \o ":"
      \o PyStrBool(q.boost_dark_edges) \o ":" \o PyStrBool(q.crop) \o ":"
      \o PyStrInt(q.crop_margin)

_hash_bytes(data) == <<"sha256", data>>

cache_key(q) == _hash_bytes(q.contents \o ParamString(q))

\* chosen = model or PRESETS[preset]["model"]: None and "" are both falsy.
Chosen(q) ==
    IF q.model = <<>> \/ q.model = <<"">> THEN PRESETS(q.preset).model ELSE q.model[1]

-----------------------------------------------------------------------------
(* Resize for inference, lines 138-153.  Python's round() rounds half to   *)
(* even.  The quotient is computed here exactly; for the sizes of Pictures *)
(* the double arithmetic of lines 150-152 gives the same integers.         *)

RoundHalfEven(n, d) ==
    LET q == n \div d
        r == n % d
    IN  IF 2 * r < d THEN q
        ELSE IF 2 * r > d THEN q + 1
        ELSE IF q % 2 = 0 THEN q ELSE q + 1

ProcMaxSide(size, max_side, ow, oh) ==
    IF size = "preview" THEN Min(PreviewSide, max_side)
    ELSE IF size = "full" THEN Max(ow, oh)
    ELSE max_side

MaxProcessing(q, ow, oh) ==
    Min(ProcMaxSide(q.size, PRESETS(q.preset).max_side, ow, oh), MemoryCap)

NeedsResize(q, ow, oh) ==
    Max(ow, oh) > MaxProcessing(q, ow, oh) /\ MaxProcessing(q, ow, oh) > 0

\* (new_w, new_h), or the original size when no resize happens
ProcSize(q, ow, oh) ==
    IF NeedsResize(q, ow, oh)
    THEN <<RoundHalfEven(ow * MaxProcessing(q, ow, oh), Max(ow, oh)),
           RoundHalfEven(oh * MaxProcessing(q, ow, oh), Max(ow, oh))>>
    ELSE <<ow, oh>>

\* Image.resize raises ValueError for a size with a side below 1.
ResizeRaises(size) == size[1] < 1 \/ size[2] < 1

-----------------------------------------------------------------------------
(* Pictures in flight.  rembg and Pillow are deterministic functions of    *)
(* their inputs, so a picture is described by what was done to it: the     *)
(* upload it came from, the model that segmented it, the size it was       *)
(* segmented at, the size of its alpha band, and the stages applied.       *)

\* What remove() returns for the PNG of size `size`, lines 161-175
Removed(contents, chosen, size) ==
    [src |-> contents, model |-> chosen, proc |-> size,
     aw |-> size[1], ah |-> size[2],
     upscaled |-> FALSE, refined |-> FALSE, boosted |-> FALSE,
     composited |-> FALSE, despilled |-> 0,
     cropped |-> FALSE, margin |-> 0, encoded |-> FALSE]

\* PostStages with the despill applied to the cutout before the composite
PostStagesDespillFirst(q, resized) ==
    (IF resized THEN <<"upscale">> ELSE <<>>)
      \o (IF q.apply_despill THEN <<"despill">> ELSE <<>>)
      \o (IF q.refine THEN <<"refine">> ELSE <<>>)
      \o <<"composite">>
      \o (IF q.crop THEN <<"crop">> ELSE <<>>)
      \o <<"encode", "cache_store">>

\* The stages lines 176-194 run for this request, in program order
PostStages(q, resized) ==
    (IF resized THEN <<"upscale">> ELSE <<>>)
      \o (IF q.refine THEN <<"refine">> ELSE <<>>)
      \o <<"composite">>
      \o (IF q.apply_despill THEN <<"despill">> ELSE <<>>)
      \o (IF q.crop THEN <<"crop">> ELSE <<>>)
      \o <<"encode", "cache_store">>

ApplyStage(s, img, q, ow, oh) ==
    CASE s = "upscale"   -> [img EXCEPT !.aw = ow, !.ah = oh, !.upscaled = TRUE]
      [] s = "refine"    -> [img EXCEPT !.refined = TRUE, !.boosted = q.boost_dark_edges]
      [] s = "composite" -> [img EXCEPT !.composited = TRUE]
      [] s = "despill"   -> [img EXCEPT !.despilled = @ + 1]
      [] s = "crop"      -> [img EXCEPT !.cropped = TRUE, !.margin = q.crop_margin]
      [] s = "encode"    -> [img EXCEPT !.encoded = TRUE]
      [] OTHER           -> img

\* Image.composite raises ValueError when the mask's size is not the images'.
StageRaises(s, img, ow, oh) ==
    s = "composite" /\ <<img.aw, img.ah>> # <<ow, oh>>

\* Runs seq[i..] on img; stage failAt raises (0: none does).  The result
\* tells whether all stages ran, which ones completed, and the picture.
RECURSIVE RunStages(_, _, _, _, _, _, _)
RunStages(seq, i, img, failAt, q, ow, oh) ==
    IF i > Len(seq) THEN [ok |-> TRUE, ran |-> seq, img |-> img]
    ELSE IF i = failAt \/ StageRaises(seq[i], img, ow, oh)
         THEN [ok |-> FALSE, ran |-> SubSeq(seq, 1, i - 1), img |-> img]
         ELSE RunStages(seq, i + 1, ApplyStage(seq[i], img, q, ow, oh), failAt, q, ow, oh)

\* CacheAfter with the assignment of line 194 left out
CacheAfterNoStore(C, key, run) == C

\* CacheAfter with the assignment moved ahead of the stages that may raise
CacheAfterEarlyStore(C, key, run) == (key :> run.img) @@ C

\* Lines 191-194: CACHE[cache_key] is assigned after out.save returned; an
\* exception raised before that leaves the handler without reaching it.
CacheAfter(C, key, run) ==
    IF run.ok THEN (key :> run.img) @@ C ELSE C

-----------------------------------------------------------------------------
(* Requests                                                                *)

Reqs == {"r1", "r2"}

NoReq ==
    [contents |-> "", preset |-> "quality", size |-> "auto", model |-> <<>>,
     refine |-> TRUE, apply_despill |-> TRUE, boost_dark_edges |-> TRUE,
     crop |-> TRUE, crop_margin |-> 10]

NoLoc ==
    [cache_key |-> <<>>, chosen |-> "", ow |-> 0, oh |-> 0,
     new_w |-> 0, new_h |-> 0, resized |-> FALSE, removed |-> <<>>]

NoResp == [status |-> 0, kind |-> "", body |-> <<>>, cached |-> FALSE]

Failure(status, kind) == [status |-> status, kind |-> kind, body |-> <<>>, cached |-> FALSE]

Success(png, cached) == [status |-> 200, kind |-> "", body |-> <<png>>, cached |-> cached]

\* The query parameters FastAPI lets through (patterns and ranges of
\* lines 105-112), over a few uploads.
Margins == {0, 10}

AllBags ==
    [contents : {"", "junk"} \cup {Pictures[i].bytes : i \in 1..Len(Pictures)},
     preset : {"fast", "balanced", "quality"},
     size : {"auto", "preview", "full"},
     model : {<<>>, <<"">>, <<"None">>, <<"u2net">>},
     refine : BOOLEAN, apply_despill : BOOLEAN, boost_dark_edges : BOOLEAN,
     crop : BOOLEAN, crop_margin : Margins]

\* The bags of the concurrent specification: the defaults, with the upload,
\* the model and the crop flag varying.
Bags ==
    {q \in AllBags :
        /\ q.contents \in {"", "junk", "P", "D"}
        /\ q.model \in {<<>>, <<"None">>, <<"u2net">>}
        /\ q.preset = "quality" /\ q.size = "auto"
        /\ q.refine /\ q.apply_despill /\ q.boost_dark_edges
        /\ q.crop_margin = 10}

NoUnit == [fn |-> "none"]

Init ==
    /\ pc = [r \in Reqs |-> "idle"]
    /\ req = [r \in Reqs |-> NoReq]
    /\ loc = [r \in Reqs |-> NoLoc]
    /\ CACHE = <<>>
    /\ SESSIONS = {}
    /\ stages = [r \in Reqs |-> <<>>]
    /\ segCalls = [r \in Reqs |-> 0]
    /\ resp = [r \in Reqs |-> NoResp]
    /\ order = <<>>
    /\ unit = NoUnit

\* A request arrives: the handler starts and awaits file.read(), line 115.
Receive(r, B) ==
    /\ pc[r] = "idle"
    /\ pc' = [pc EXCEPT ![r] = "reading"]
    /\ \E q \in B : req' = [req EXCEPT ![r] = q]
    /\ order' = Append(order, r)
    /\ UNCHANGED <<loc, CACHE, SESSIONS, stages, segCalls, resp, unit>>

\* The handler's outcome from line 116 up to the await of line 161.
\* get_session (lines 34-38) stores the session before the picture is decoded.
BeforeSegment(q, C, S) ==
    LET key    == cache_key(q)
        chosen == Chosen(q)
        l0     == [NoLoc EXCEPT !.cache_key = key]
        l1     == [l0 EXCEPT !.chosen = chosen]
        S1     == S \cup {chosen}
        sz     == PictureSize(q.contents)
        ps     == ProcSize(q, sz[1], sz[2])
        l2     == [l1 EXCEPT !.ow = sz[1], !.oh = sz[2]]
        l3     == [l2 EXCEPT !.new_w = ps[1], !.new_h = ps[2],
                             !.resized = NeedsResize(q, sz[1], sz[2])]
    IN  IF q.contents = ""
        THEN [pc |-> "failed", loc |-> NoLoc, S |-> S, ran |-> <<>>,
              resp |-> Failure(400, "EmptyInput")]
        ELSE IF key \in DOMAIN C
        THEN [pc |-> "done", loc |-> l0, S |-> S, ran |-> <<>>,
              resp |-> Success(C[key], TRUE)]
        ELSE IF chosen \notin S /\ chosen \notin RembgModels
        THEN [pc |-> "failed", loc |-> l1, S |-> S, ran |-> <<>>,
              resp |-> Failure(400, "UnsupportedModel")]
        ELSE IF ~IsPicture(q.contents)
        THEN [pc |-> "failed", loc |-> l1, S |-> S1, ran |-> <<>>,
              resp |-> Failure(500, "DecodeFailure")]
        ELSE IF l3.resized /\ ResizeRaises(ps)
        THEN [pc |-> "failed", loc |-> l3, S |-> S1, ran |-> <<"decode">>,
              resp |-> Failure(500, "ResizeFailure")]
        ELSE [pc |-> "segmenting", loc |-> l3, S |-> S1,
              ran |-> IF l3.resized THEN <<"decode", "resize">> ELSE <<"decode">>,
              resp |-> NoResp]

AfterRead(r) ==
    /\ pc[r] = "reading"
    /\ LET o == BeforeSegment(req[r], CACHE, SESSIONS)
       IN  /\ pc' = [pc EXCEPT ![r] = o.pc]
           /\ loc' = [loc EXCEPT ![r] = o.loc]
           /\ SESSIONS' = o.S
           /\ stages' = [stages EXCEPT ![r] = o.ran]
           /\ resp' = [resp EXCEPT ![r] = o.resp]
    /\ UNCHANGED <<req, CACHE, segCalls, order, unit>>

\* An EXECUTOR thread runs rembg.remove on the PNG of the picture; it
\* returns the cutout or raises.  Lines 161-172 sit in no try block, so an
\* exception leaves the handler when the await resumes.
Segment(r, raises) ==
    /\ pc[r] = "segmenting"
    /\ segCalls' = [segCalls EXCEPT ![r] = @ + 1]
    /\ IF raises
       THEN /\ pc' = [pc EXCEPT ![r] = "failed"]
            /\ resp' = [resp EXCEPT ![r] = Failure(500, "SegmentationFailure")]
            /\ UNCHANGED <<loc, stages>>
       ELSE /\ pc' = [pc EXCEPT ![r] = "segmented"]
            /\ loc' = [loc EXCEPT ![r].removed =
                          <<Removed(req[r].contents, loc[r].chosen,
                                    <<loc[r].new_w, loc[r].new_h>>)>>]
            /\ stages' = [stages EXCEPT ![r] = Append(@, "segment")]
            /\ UNCHANGED resp
    /\ UNCHANGED <<req, CACHE, SESSIONS, order, unit>>

\* The handler resumes after the await: lines 174-199.  Any of the stages
\* may raise (failAt), and then the rest is not run.
Resume(r) ==
    /\ pc[r] = "segmented"
    /\ \E failAt \in 0..Len(PostStages(req[r], loc[r].resized)) :
       LET seq == PostStages(req[r], loc[r].resized)
           run == RunStages(seq, 1, loc[r].removed[1], failAt, req[r],
                            loc[r].ow, loc[r].oh)
       IN  /\ stages' = [stages EXCEPT ![r] = @ \o run.ran]
           /\ CACHE' = CacheAfter(CACHE, loc[r].cache_key, run)
           /\ pc' = [pc EXCEPT ![r] = IF run.ok THEN "done" ELSE "failed"]
           /\ resp' = [resp EXCEPT ![r] = IF run.ok THEN Success(run.img, FALSE)
                                          ELSE Failure(500, "StageFailure")]
    /\ UNCHANGED <<req, loc, SESSIONS, segCalls, order, unit>>

RequestStep(R, B) ==
    \E r \in R :
        \/ Receive(r, B)
        \/ AfterRead(r)
        \/ \E raises \in BOOLEAN : Segment(r, raises)
        \/ Resume(r)

Next == RequestStep(Reqs, Bags)

\* Two requests in flight on the event loop
Spec == Init /\ [][Next]_vars

NextOne == RequestStep({"r1"}, AllBags)

\* One request, over every combination of parameters
SpecOne == Init /\ [][NextOne]_vars

-----------------------------------------------------------------------------
(* Properties of the request pipeline                                      *)

Range(f) == {f[i] : i \in DOMAIN f}

Terminal(r) == pc[r] \in {"done", "failed"}

ArrivedBefore(r1, r2) ==
    \E i, j \in 1..Len(order) : i < j /\ order[i] = r1 /\ order[j] = r2

\* The response of the pipeline run alone on an empty cache with no stage
\* raising: the pure function of (upload bytes, parameters).
Pipeline(q) ==
    LET o == BeforeSegment(q, <<>>, {})
    IN  IF o.pc = "failed" THEN o.resp
        ELSE LET run == RunStages(PostStages(q, o.loc.resized), 1,
                                  Removed(q.contents, o.loc.chosen,
                                          <<o.loc.new_w, o.loc.new_h>>),
                                  0, q, o.loc.ow, o.loc.oh)
             IN  IF run.ok THEN Success(run.img, FALSE)
                 ELSE Failure(500, "StageFailure")

\* C1 as stated: of any two requests with the same bytes and parameters that
\* were both answered with a picture, the one that arrived second got the
\* same bytes as the first and never invoked rembg.remove.
C1_SecondAlwaysFromCache ==
    \A r1, r2 \in Reqs :
        (/\ r1 # r2 /\ req[r1] = req[r2]
         /\ pc[r1] = "done" /\ pc[r2] = "done"
         /\ ArrivedBefore(r1, r2))
        => /\ resp[r2].body = resp[r1].body
           /\ segCalls[r2] = 0

\* C1 amended: a request that passes its cache lookup when a request with
\* the same bytes and parameters has already completed successfully is
\* served from CACHE, with that request's bytes and without invoking
\* rembg.remove; and any two successful requests with the same bytes and
\* parameters carry the same bytes, overlapping or not.
C1_SecondFromCacheAfterFirstCompleted ==
    [][ /\ \A r1, r2 \in Reqs :
             (/\ r1 # r2 /\ req[r1] = req[r2]
              /\ pc[r1] = "done"
              /\ pc[r2] = "reading" /\ pc'[r2] # "reading")
             => /\ pc'[r2] = "done"
                /\ resp'[r2].cached
                /\ resp'[r2].body = resp[r1].body
                /\ segCalls'[r2] = 0
        /\ \A r1, r2 \in Reqs :
             (req'[r1] = req'[r2] /\ pc'[r1] = "done" /\ pc'[r2] = "done")
             => resp'[r1].body = resp'[r2].body ]_vars

C1_Witness ==
    \E r1, r2 \in Reqs :
        /\ r1 # r2 /\ req[r1] = req[r2]
        /\ pc[r1] = "done" /\ ~resp[r1].cached /\ segCalls[r1] = 1
        /\ pc[r2] = "done" /\ resp[r2].cached /\ segCalls[r2] = 0
        /\ resp[r2].body = resp[r1].body

\* The stages of a complete run end with the encoding and the store
FullRun(st) ==
    /\ {"decode", "segment", "composite"} \subseteq Range(st)
    /\ Len(st) >= 2
    /\ st[Len(st) - 1] = "encode" /\ st[Len(st)] = "cache_store"

\* C3: CACHE changes only in the step in which a request completes every
\* stage through the encoding, and it then gains exactly that request's
\* encoded picture under its key; a step in which a request fails (empty
\* upload, model load, decode, resize, segmentation, any later stage)
\* leaves CACHE as it was.
C3_CacheWrittenOnlyAfterEncoded ==
    [][ /\ CACHE' # CACHE =>
             \E r \in Reqs :
                 /\ pc[r] = "segmented" /\ pc'[r] = "done"
                 /\ FullRun(stages'[r])
                 /\ resp'[r].status = 200 /\ resp'[r].body[1].encoded
                 /\ CACHE' = (loc[r].cache_key :> resp'[r].body[1]) @@ CACHE
        /\ \A r \in Reqs :
             (pc[r] # "failed" /\ pc'[r] = "failed") => CACHE' = CACHE ]_vars

C3_Witness ==
    \E r1, r2 \in Reqs :
        /\ pc[r1] = "done" /\ ~resp[r1].cached
        /\ DOMAIN CACHE = {loc[r1].cache_key}
        /\ pc[r2] = "failed" /\ resp[r2].kind = "StageFailure"
        /\ "composite" \in Range(stages[r2])
        /\ loc[r2].cache_key \notin DOMAIN CACHE

\* C4 as stated: a request whose segmentation call failed is answered with
\* the failure only after a second, fallback call of rembg.remove failed too.
C4_SegmentationRetriedOnce ==
    \A r \in Reqs :
        resp[r].kind = "SegmentationFailure" => segCalls[r] = 2

Canon ==
    <<"decode", "resize", "segment", "upscale", "refine", "composite",
      "despill", "crop", "encode", "cache_store">>

CanonIndex(s) == CHOOSE i \in 1..Len(Canon) : Canon[i] = s

\* C8: the stages a request has completed are in the canonical order with
\* none repeated; a request that missed the cache and completed ran decode,
\* segment, composite, encode and the store, ran the resize and the mask
\* upscale together or not at all, ran refine, despill and crop exactly when
\* their flags are set, and applied the despill once or not at all.
C8_StagesInOrder ==
    \A r \in Reqs :
        LET st == stages[r]
            q  == req[r]
        IN  /\ \A i, j \in 1..Len(st) : i < j => CanonIndex(st[i]) < CanonIndex(st[j])
            /\ (pc[r] = "done" /\ ~resp[r].cached) =>
                 /\ FullRun(st)
                 /\ ("resize" \in Range(st)) <=> ("upscale" \in Range(st))
                 /\ ("refine" \in Range(st)) <=> q.refine
                 /\ ("despill" \in Range(st)) <=> q.apply_despill
                 /\ ("crop" \in Range(st)) <=> q.crop
                 /\ resp[r].body[1].despilled = IF q.apply_despill THEN 1 ELSE 0
                 /\ resp[r].body[1].refined = q.refine
                 /\ resp[r].body[1].cropped = q.crop

C8_Witness ==
    \E r \in Reqs : pc[r] = "done" /\ stages[r] = Canon

\* C9 as stated: whatever a request reads from CACHE is the response the
\* pipeline computes from that request's own bytes and parameters.
C9_CacheReadIsPureFunction ==
    \A r \in Reqs :
        (pc[r] = "done" /\ resp[r].cached) =>
            /\ Pipeline(req[r]).status = 200
            /\ resp[r].body = Pipeline(req[r]).body

\* C10 as stated: once a request has decoded its picture, the size it is
\* segmented at has both sides >= 1 and its larger side within
\* min(proc_max_side, 1200) when the original exceeds it (the original size
\* otherwise), and a composited cutout has the alpha band at the original
\* size.
C10_InferenceSize ==
    \A r \in Reqs :
        ("decode" \in Range(stages[r])) =>
            LET q  == req[r]
                l  == loc[r]
                mp == MaxProcessing(q, l.ow, l.oh)
            IN  /\ l.new_w >= 1 /\ l.new_h >= 1
                /\ IF Max(l.ow, l.oh) > mp
                   THEN Max(l.new_w, l.new_h) <= mp
                   ELSE <<l.new_w, l.new_h>> = <<l.ow, l.oh>>
                /\ (pc[r] = "done") =>
                     <<resp[r].body[1].aw, resp[r].body[1].ah>> = <<l.ow, l.oh>>

-----------------------------------------------------------------------------
(* The helpers, each applied once to an input drawn by the initial state.  *)
(* The request variables stay as Init leaves them.                         *)

RequestsIdle ==
    /\ pc = [r \in Reqs |-> "idle"]
    /\ req = [r \in Reqs |-> NoReq]
    /\ loc = [r \in Reqs |-> NoLoc]
    /\ CACHE = <<>>
    /\ SESSIONS = {}
    /\ stages = [r \in Reqs |-> <<>>]
    /\ segCalls = [r \in Reqs |-> 0]
    /\ resp = [r \in Reqs |-> NoResp]
    /\ order = <<>>

RequestVars == <<pc, req, loc, CACHE, SESSIONS, stages, segCalls, resp, order>>

-----------------------------------------------------------------------------
(* The cache key of two requests, line 119                                 *)

FlagChoices ==
    {f \in [refine : BOOLEAN, apply_despill : BOOLEAN,
            boost_dark_edges : BOOLEAN, crop : BOOLEAN] :
        Cardinality({x \in DOMAIN f : ~f[x]}) <= 1}

KeyBags ==
    {[contents |-> c, preset |-> p, size |-> z, model |-> m,
      refine |-> f.refine, apply_despill |-> f.apply_despill,
      boost_dark_edges |-> f.boost_dark_edges, crop |-> f.crop,
      crop_margin |-> g] :
        c \in {"P", "Pfast:auto:"}, p \in {"fast", "quality"},
        z \in {"auto", "full"},
        m \in {<<>>, <<"None">>, <<"u2net">>, <<"quality:full:u2net">>},
        f \in FlagChoices, g \in Margins}

InitKey ==
    /\ RequestsIdle
    /\ \E a, b \in KeyBags :
         unit = [fn |-> "cache_key", a |-> a, b |-> b,
                 ka |-> <<>>, kb |-> <<>>, done |-> FALSE]

ComputeKeys ==
    /\ ~unit.done
    /\ unit' = [unit EXCEPT !.ka = cache_key(unit.a), !.kb = cache_key(unit.b),
                            !.done = TRUE]
    /\ UNCHANGED RequestVars

SpecKey == InitKey /\ [][ComputeKeys]_vars

\* C2 as stated: two requests that differ in their upload bytes or in any
\* parameter of the key have different cache keys.
C2_KeyInjective ==
    (unit.done /\ unit.a # unit.b) => unit.ka # unit.kb

-----------------------------------------------------------------------------
(* _refine_alpha, lines 61-77.  A mask is a grid of values 0..255.         *)

Clamp(v, lo, hi) == Max(lo, Min(v, hi))

Grid(w, h) == (0..(w - 1)) \X (0..(h - 1))

\* The values of the window of the given radius around p; ImageFilter's rank
\* filters extend the picture by repeating its edge pixels.
Window(m, p, radius) ==
    {m.px[<<Clamp(p[1] + dx, 0, m.w - 1), Clamp(p[2] + dy, 0, m.h - 1)>>] :
        dx \in (-radius)..radius, dy \in (-radius)..radius}

SetMin(S) == CHOOSE v \in S : \A u \in S : v <= u
SetMax(S) == CHOOSE v \in S : \A u \in S : v >= u

\* ImageFilter.MinFilter(2 * radius + 1)
MinFilter(m, radius) ==
    [m EXCEPT !.px = [p \in Grid(m.w, m.h) |-> SetMin(Window(m, p, radius))]]

\* ImageFilter.MaxFilter(2 * radius + 1)
MaxFilter(m, radius) ==
    [m EXCEPT !.px = [p \in Grid(m.w, m.h) |-> SetMax(Window(m, p, radius))]]

\* ImageFilter.GaussianBlur: a normalised smoothing kernel with the edges
\* repeated, here the 3x3 binomial kernel (1 2 1) x (1 2 1) / 16, rounded.
GaussianBlur(m) ==
    LET at(p, dx, dy) ==
            m.px[<<Clamp(p[1] + dx, 0, m.w - 1), Clamp(p[2] + dy, 0, m.h - 1)>>]
        row(p, dy) == at(p, -1, dy) + 2 * at(p, 0, dy) + at(p, 1, dy)
        sum(p) == row(p, -1) + 2 * row(p, 0) + row(p, 1)
    IN  [m EXCEPT !.px = [p \in Grid(m.w, m.h) |-> (sum(p) + 8) \div 16]]

\* int(v * 1.4) in double arithmetic: floor(14 v / 10) for v in 0..63 except
\* v = 45, where 45 * 1.4 is 62.99999999999999.
IntTimes1_4(v) == IF v = 45 THEN 62 ELSE (v * 14) \div 10

\* Lines 70-76
BoostDarkEdges(m) ==
    [m EXCEPT !.px = [p \in Grid(m.w, m.h) |->
        IF m.px[p] < 64 THEN Min(255, IntTimes1_4(m.px[p]) + 6) ELSE m.px[p]]]

\* The mask after each of the four steps of _refine_alpha
RefineSteps(mask, contract, expand, small_blur, boost_dark_edges) ==
    LET a1 == IF contract > 0 THEN MinFilter(mask, contract) ELSE mask
        a2 == IF expand > 0 THEN MaxFilter(a1, expand) ELSE a1
        a3 == IF small_blur > 0 THEN GaussianBlur(a2) ELSE a2
        a4 == IF boost_dark_edges THEN BoostDarkEdges(a3) ELSE a3
    IN  <<a1, a2, a3, a4>>

_refine_alpha(mask, contract, expand, small_blur, boost_dark_edges) ==
    RefineSteps(mask, contract, expand, small_blur, boost_dark_edges)[4]

MaskValues == {0, 45, 255}

Masks ==
    UNION {{[w |-> w, h |-> h, px |-> f] : f \in [Grid(w, h) -> MaskValues]} :
              <<w, h>> \in (1..2) \X (1..2)}

InitRefine ==
    /\ RequestsIdle
    /\ \E m \in Masks, c \in 0..1, e \in 0..2, b \in 0..1, d \in BOOLEAN :
         unit = [fn |-> "_refine_alpha", mask |-> m, contract |-> c, expand |-> e,
                 small_blur |-> b, boost_dark_edges |-> d,
                 steps |-> <<>>, done |-> FALSE]

ApplyRefine ==
    /\ ~unit.done
    /\ unit' = [unit EXCEPT
                  !.steps = RefineSteps(unit.mask, unit.contract, unit.expand,
                                        unit.small_blur, unit.boost_dark_edges),
                  !.done = TRUE]
    /\ UNCHANGED RequestVars

SpecRefine == InitRefine /\ [][ApplyRefine]_vars

IsConstant(m, v) == \A p \in Grid(m.w, m.h) : m.px[p] = v

\* C6 as stated: an all-zero mask is all-zero after each of the four steps
\* of _refine_alpha, and an all-255 mask is all-255 after each of them,
\* whatever contract, expand, blur and boost_dark_edges are.
C6_ConstantMaskUnchanged ==
    \A v \in {0, 255} :
        (unit.done /\ IsConstant(unit.mask, v)) =>
            \A i \in 1..4 : unit.steps[i] = unit.mask

-----------------------------------------------------------------------------
(* _crop_with_margin, lines 87-98.  A picture is its size and the set px   *)
(* of its pixels with alpha > 0; x runs over 0..w-1 and y over 0..h-1.     *)

\* getbbox with its lower-right corner on the last non-zero pixel
GetBBoxInclusive(img) ==
    IF img.px = {} THEN <<>>
    ELSE <<SetMin({p[1] : p \in img.px}), SetMin({p[2] : p \in img.px}),
           SetMax({p[1] : p \in img.px}), SetMax({p[2] : p \in img.px})>>

\* Image.getbbox of the alpha band: None (<<>>) when the band is all zero,
\* else (left, upper, right, lower) with right and lower exclusive.
GetBBox(img) ==
    IF img.px = {} THEN <<>>
    ELSE <<SetMin({p[1] : p \in img.px}), SetMin({p[2] : p \in img.px}),
           SetMax({p[1] : p \in img.px}) + 1, SetMax({p[2] : p \in img.px}) + 1>>

\* Image.crop((left, top, right, bottom))
Crop(img, box) ==
    [w |-> box[3] - box[1], h |-> box[4] - box[2],
     px |-> {<<p[1] - box[1], p[2] - box[2]>> :
                p \in {t \in img.px : /\ box[1] <= t[1] /\ t[1] < box[3]
                                      /\ box[2] <= t[2] /\ t[2] < box[4]}}]

\* ImageOps.expand without the border
ExpandNothing(img, border) == img

\* ImageOps.expand(img, border, fill=(0, 0, 0, 0))
Expand(img, border) ==
    [w |-> img.w + 2 * border, h |-> img.h + 2 * border,
     px |-> {<<p[1] + border, p[2] + border>> : p \in img.px}]

_crop_with_margin(img, margin) ==
    LET bbox   == GetBBox(img)
        left   == Max(bbox[1] - margin, 0)
        top    == Max(bbox[2] - margin, 0)
        right  == Min(bbox[3] + margin, img.w)
        bottom == Min(bbox[4] + margin, img.h)
    IN  IF bbox = <<>> THEN img
        ELSE Expand(Crop(img, <<left, top, right, bottom>>), margin)

MaxSide == 3
MaxMargin == 2
MaxPixels == 3

\* The pictures of up to MaxSide x MaxSide with up to MaxPixels pixels of
\* alpha > 0
CropPictures ==
    UNION {{[w |-> w, h |-> h, px |-> s] :
               s \in {t \in SUBSET Grid(w, h) : Cardinality(t) <= MaxPixels}} :
              <<w, h>> \in (1..MaxSide) \X (1..MaxSide)}

\* The end-to-end scenario: a 100x100 opaque square centred in a 300x300
\* transparent canvas, the mask exact, so that the composite of lines
\* 182-183 has alpha > 0 exactly on the square.
SquareOnCanvas == [w |-> 300, h |-> 300, px |-> (100..199) \X (100..199)]

InitCrop ==
    /\ RequestsIdle
    /\ \/ \E i \in CropPictures, m \in 0..MaxMargin :
            unit = [fn |-> "_crop_with_margin", img |-> i, margin |-> m,
                    out |-> i, done |-> FALSE]
       \/ unit = [fn |-> "_crop_with_margin", img |-> SquareOnCanvas, margin |-> 10,
                  out |-> SquareOnCanvas, done |-> FALSE]

\* Lines 188-189 with crop set
ApplyCrop ==
    /\ ~unit.done
    /\ unit' = [unit EXCEPT !.out = _crop_with_margin(unit.img, unit.margin),
                            !.done = TRUE]
    /\ UNCHANGED RequestVars

SpecCrop == InitCrop /\ [][ApplyCrop]_vars

Columns(img) == {p[1] : p \in img.px}
Rows(img) == {p[2] : p \in img.px}

Shifted(px, dx, dy) == {<<p[1] + dx, p[2] + dy>> : p \in px}

\* The content's bounding box lies at least m pixels from every edge
Inset(img, m) ==
    /\ img.px # {}
    /\ \A p \in img.px : /\ m <= p[1] /\ p[1] < img.w - m
                         /\ m <= p[2] /\ p[2] < img.h - m

BoxW(img) == SetMax(Columns(img)) - SetMin(Columns(img)) + 1
BoxH(img) == SetMax(Rows(img)) - SetMin(Rows(img)) + 1

\* C5 as stated: when the content's box is bw x bh and lies at least
\* margin from every edge, the cropped picture is (bw+2m) x (bh+2m) with the
\* content at offset (m, m); the square on the canvas with margin 10 comes
\* out 120x120 with the square at (10,10)-(110,110).
C5_OutputIsBoxPlusTwoMargins ==
    (unit.done /\ Inset(unit.img, unit.margin)) =>
        /\ unit.out.w = BoxW(unit.img) + 2 * unit.margin
        /\ unit.out.h = BoxH(unit.img) + 2 * unit.margin
        /\ unit.out.px = Shifted(unit.img.px,
                                 unit.margin - SetMin(Columns(unit.img)),
                                 unit.margin - SetMin(Rows(unit.img)))

\* C5 amended: when the content's box is bw x bh and lies at least margin
\* from every edge, the cropped picture is (bw+4m) x (bh+4m) with the
\* content at offset (2m, 2m), so with a fully transparent border of width
\* 2m (the margin kept by the crop plus the margin added by the padding);
\* the square on the canvas with margin 10 comes out 140x140 with the square
\* at (20,20)-(120,120).
C5_OutputIsBoxPlusFourMargins ==
    /\ (unit.done /\ Inset(unit.img, unit.margin)) =>
          /\ unit.out.w = BoxW(unit.img) + 4 * unit.margin
          /\ unit.out.h = BoxH(unit.img) + 4 * unit.margin
          /\ unit.out.px = Shifted(unit.img.px,
                                   2 * unit.margin - SetMin(Columns(unit.img)),
                                   2 * unit.margin - SetMin(Rows(unit.img)))
          /\ SetMin(Columns(unit.out)) = 2 * unit.margin
          /\ SetMin(Rows(unit.out)) = 2 * unit.margin
          /\ SetMax(Columns(unit.out)) = unit.out.w - 2 * unit.margin - 1
          /\ SetMax(Rows(unit.out)) = unit.out.h - 2 * unit.margin - 1
    /\ (unit.done /\ unit.img = SquareOnCanvas /\ unit.margin = 10) =>
          unit.out = [w |-> 140, h |-> 140, px |-> (20..119) \X (20..119)]

C5_Witness ==
    /\ unit.done /\ unit.img = SquareOnCanvas /\ unit.margin = 10
    /\ Inset(unit.img, unit.margin)
    /\ unit.out.w = 140 /\ unit.out.h = 140

\* The columns (rows) of the picture within margin of the content's columns
\* (rows): the box grown by the margin and clamped to the picture.
KeptColumns(img, m) ==
    {x \in 0..(img.w - 1) :
        SetMin(Columns(img)) - m <= x /\ x <= SetMax(Columns(img)) + m}
KeptRows(img, m) ==
    {y \in 0..(img.h - 1) :
        SetMin(Rows(img)) - m <= y /\ y <= SetMax(Rows(img)) + m}

\* C7: a picture with no pixel of alpha > 0 is returned unchanged whatever
\* the margin; otherwise the output is as wide as the clamped box plus twice
\* the margin, the clamped box being at least 1 and at most the picture's
\* width, so the output is never empty and at most 2*margin wider than the
\* input (the same for the height); with margin 0 the output is exactly the
\* bounding box, the content touching all four sides.
C7_CropBounds ==
    unit.done =>
        IF unit.img.px = {} THEN unit.out = unit.img
        ELSE LET cw == Cardinality(KeptColumns(unit.img, unit.margin))
                 ch == Cardinality(KeptRows(unit.img, unit.margin))
             IN  /\ unit.out.w = cw + 2 * unit.margin
                 /\ unit.out.h = ch + 2 * unit.margin
                 /\ 1 <= cw /\ cw <= unit.img.w
                 /\ 1 <= ch /\ ch <= unit.img.h
                 /\ 1 <= unit.out.w /\ unit.out.w <= unit.img.w + 2 * unit.margin
                 /\ 1 <= unit.out.h /\ unit.out.h <= unit.img.h + 2 * unit.margin
                 /\ Cardinality(unit.out.px) = Cardinality(unit.img.px)
                 /\ unit.margin = 0 =>
                      /\ unit.out.w = BoxW(unit.img) /\ unit.out.h = BoxH(unit.img)
                      /\ unit.out.px = Shifted(unit.img.px,
                                               0 - SetMin(Columns(unit.img)),
                                               0 - SetMin(Rows(unit.img)))
                      /\ {0, unit.out.w - 1} \subseteq Columns(unit.out)
                      /\ {0, unit.out.h - 1} \subseteq Rows(unit.out)

\* A crop that is clamped on the left and not on the right
C7_Witness ==
    /\ unit.done /\ unit.margin >= 1 /\ unit.img.px # {}
    /\ SetMin(Columns(unit.img)) = 0
    /\ SetMax(Columns(unit.img)) + unit.margin < unit.img.w
    /\ unit.out.w = BoxW(unit.img) + 3 * unit.margin
    /\ unit.out.w < unit.img.w + 2 * unit.margin

====
